---- MODULE Spec2Model ----
(***************************************************************************)
(* A model of src/lisp.py: the lexer (tokenize), the recursive-descent     *)
(* parser (parse_expression, parse_program), the tree-walking evaluator    *)
(* (evaluate) with its single mutable environment, and the two drivers     *)
(* (repl, evaluate_file).                                                  *)
(*                                                                         *)
(* Text is a sequence of characters, a token a non-empty sequence of       *)
(* characters.  Every value is a tagged tuple:                             *)
(*   <<"Number", n, d>>   Number(value = n/d), d >= 1, in lowest terms     *)
(*   <<"Symbol", name>>   Symbol(name)                                     *)
(*   <<"List", items>>    a Python list                                    *)
(*   <<"Function", parameters, body>>   the Function dataclass             *)
(*   <<"Builtin", name>>  a native callable of standard_environment        *)
(*   <<"Bool", b>>        a Python bool (the result of < and >)            *)
(*   <<"None">>           Python's None (the result of print)              *)
(***************************************************************************)
EXTENDS Integers, Sequences, FiniteSets, TLC

VARIABLES
    text,        \* parser pipeline: the source text handed to tokenize
    tokens,      \* parser pipeline: tokenize(text)
    parsed,      \* parser pipeline: the outcome of parse_program(tokens)
    reparsed,    \* parser pipeline: the outcome of parsing the re-rendered trees
    ppc,         \* parser pipeline: position ("text", "tokens", "parsed", "done", "idle")
    environment, \* the environment dict every evaluation of a run shares
    expression,  \* evaluator calls: the expression last handed to evaluate
    before,      \* evaluator calls: the environment as that call found it
    outcome,     \* evaluator calls: what that call returned or raised, and its effects
    steps,       \* evaluator calls: how many calls have been made
    mode,        \* drivers: "none", "repl", "file" or "usage" (the match on sys.argv)
    pc,          \* drivers: "start", "prompt", "eval", "file_parse", "file_eval", "exit"
    status,      \* drivers: "running", "returned" (normal end) or "crashed" (uncaught exception)
    source,      \* drivers: the line or the file contents last read
    pending,     \* drivers: the parsed top-level forms not yet evaluated
    evaluated,   \* drivers: history, the forms handed to evaluate and whether each returned
    stdout,      \* drivers: what has been printed to standard output
    stderr,      \* drivers: the tracebacks printed
    event,       \* drivers: history, what the last step did
    reads        \* drivers: how many lines the prompt has read

parserVars == <<text, tokens, parsed, reparsed, ppc>>
callVars == <<expression, before, outcome, steps>>
evalVars == <<environment, callVars>>
driverVars == <<mode, pc, status, source, pending, evaluated, stdout, stderr, event, reads>>
vars == <<parserVars, evalVars, driverVars>>

----------------------------------------------------------------------------
(* Bounds *)

MaxText == 5
MaxEvals == 2
MaxLines == 2

----------------------------------------------------------------------------
(* Characters.  "sup2" stands for U+00B2 SUPERSCRIPT TWO: a character for  *)
(* which str.isdigit() is true and which int() rejects.                    *)

LBracket == "["
RBracket == "]"

Whitespace == {" ", "\n"}

DecimalChars == {"0", "1", "2", "3", "4", "5", "6", "7", "8", "9"}

DigitChars == DecimalChars \cup {"sup2"}

TextChars == {"[", "]", " ", "0", "1", "a", "sup2"}

----------------------------------------------------------------------------
(* Values *)

Number(n) == <<"Number", n, 1>>
Symbol(name) == <<"Symbol", name>>
List(items) == <<"List", items>>
Function(parameters, body) == <<"Function", parameters, body>>
Builtin(name) == <<"Builtin", name>>
Bool(b) == <<"Bool", b>>
None == <<"None">>

IsNumber(v) == v[1] = "Number"
IsSymbol(v) == v[1] = "Symbol"
IsList(v) == v[1] = "List"

----------------------------------------------------------------------------
(* tokenize: re.findall(r'\[|\]|[^\[\]\s]+', text)                         *)

IsBracket(c) == c \in {LBracket, RBracket}
IsWordChar(c) == ~IsBracket(c) /\ c \notin Whitespace

\* The matches are, from left to right, each bracket and each maximal run
\* of characters that are neither brackets nor whitespace.  The text is
\* tokenized by halves (a run that straddles the middle is joined again),
\* which keeps the evaluation shallow on long texts.
RECURSIVE tokenize_span(_, _, _)
tokenize_span(s, lo, hi) ==
    IF lo > hi THEN <<>>
    ELSE IF lo = hi
         THEN IF s[lo] \in Whitespace THEN <<>> ELSE <<(<<s[lo]>>)>>
    ELSE LET mid == (lo + hi) \div 2
             left == tokenize_span(s, lo, mid)
             right == tokenize_span(s, mid + 1, hi)
         IN  IF IsWordChar(s[mid]) /\ IsWordChar(s[mid + 1])
             THEN SubSeq(left, 1, Len(left) - 1)
                    \o <<left[Len(left)] \o right[1]>>
                    \o Tail(right)
             ELSE left \o right

tokenize(s) == tokenize_span(s, 1, Len(s))

----------------------------------------------------------------------------
(* parse_expression, parse_program                                        *)

\* str.isdigit(): non-empty and every character a digit character
isdigit(tok) == tok # <<>> /\ \A i \in 1..Len(tok) : tok[i] \in DigitChars

\* int(tok) succeeds exactly on decimal digits (given isdigit(tok))
IntParses(tok) == \A i \in 1..Len(tok) : tok[i] \in DecimalChars

DecimalValue(c) ==
    CASE c = "0" -> 0 [] c = "1" -> 1 [] c = "2" -> 2 [] c = "3" -> 3
      [] c = "4" -> 4 [] c = "5" -> 5 [] c = "6" -> 6 [] c = "7" -> 7
      [] c = "8" -> 8 [] c = "9" -> 9

RECURSIVE int(_)
int(tok) ==
    IF tok = <<>> THEN 0
    ELSE 10 * int(SubSeq(tok, 1, Len(tok) - 1)) + DecimalValue(tok[Len(tok)])

NoValue == List(<<>>)

\* Outcomes of parse_expression: None, (value, tokens), or a raised exception
ParseNone == [kind |-> "none", value |-> NoValue, rest |-> <<>>, err |-> ""]
ParseOk(v, rest) == [kind |-> "ok", value |-> v, rest |-> rest, err |-> ""]
ParseRaise(e) == [kind |-> "raise", value |-> NoValue, rest |-> <<>>, err |-> e]

ExpectingClose == "Expecting ], found end of program"
UnexpectedClose == "Unexpected ]"
ValueError == "ValueError"

RECURSIVE parse_expression(_), parse_items(_, _)

\* lines 76-86: the while loop collecting the items of one list, and its exit
parse_items(toks, items) ==
    IF toks # <<>> /\ Head(toks) # <<RBracket>>
    THEN LET result == parse_expression(toks)
         IN  IF result.kind = "none" THEN ParseRaise(ExpectingClose)
             ELSE IF result.kind = "raise" THEN result
             ELSE parse_items(result.rest, Append(items, result.value))
    ELSE IF toks = <<>> THEN ParseRaise(ExpectingClose)
    ELSE ParseOk(List(items), Tail(toks))

parse_expression(toks) ==
    IF toks = <<>> THEN ParseNone
    ELSE IF Head(toks) = <<LBracket>> THEN parse_items(Tail(toks), <<>>)
    ELSE IF Head(toks) = <<RBracket>> THEN ParseRaise(UnexpectedClose)
    ELSE IF isdigit(Head(toks))
         THEN IF IntParses(Head(toks))
              THEN ParseOk(Number(int(Head(toks))), Tail(toks))
              ELSE ParseRaise(ValueError)
    ELSE ParseOk(Symbol(Head(toks)), Tail(toks))

\* Outcomes of parse_program: the list of top-level forms, or a raised exception
ProgramOk(items) == [ok |-> TRUE, items |-> items, err |-> ""]
ProgramRaise(e) == [ok |-> FALSE, items |-> <<>>, err |-> e]

RECURSIVE parse_loop(_, _)
parse_loop(toks, items) ==
    LET result == parse_expression(toks)
    IN  IF result.kind = "none" THEN ProgramOk(items)
        ELSE IF result.kind = "raise" THEN ProgramRaise(result.err)
        ELSE parse_loop(result.rest, Append(items, result.value))

parse_program(toks) == parse_loop(toks, <<>>)

----------------------------------------------------------------------------
(* Rendering a tree back to text: `[`, the elements separated by spaces,   *)
(* `]`; a Number as its decimal digits; a Symbol as its name.              *)

DigitChar(n) ==
    CASE n = 0 -> "0" [] n = 1 -> "1" [] n = 2 -> "2" [] n = 3 -> "3"
      [] n = 4 -> "4" [] n = 5 -> "5" [] n = 6 -> "6" [] n = 7 -> "7"
      [] n = 8 -> "8" [] n = 9 -> "9"

RECURSIVE Decimal(_)
Decimal(n) ==
    IF n < 10 THEN <<DigitChar(n)>>
    ELSE Append(Decimal(n \div 10), DigitChar(n % 10))

RECURSIVE Render(_), RenderItems(_)
Render(v) ==
    IF IsNumber(v) THEN Decimal(v[2])
    ELSE IF IsSymbol(v) THEN v[2]
    ELSE <<LBracket>> \o RenderItems(v[2]) \o <<RBracket>>

RenderItems(items) ==
    IF items = <<>> THEN <<>>
    ELSE IF Len(items) = 1 THEN Render(items[1])
    ELSE Render(items[1]) \o <<" ">> \o RenderItems(Tail(items))

\* A program's top-level forms, one after the other, separated by spaces
RenderProgram(items) == RenderItems(items)

----------------------------------------------------------------------------
(* Names *)

kwDefine == <<"d", "e", "f", "i", "n", "e">>
kwIf == <<"i", "f">>
kwFn == <<"f", "n">>
nmPlus == <<"+">>
nmMinus == <<"-">>
nmTimes == <<"*">>
nmDivide == <<"/">>
nmLess == <<"<">>
nmGreater == <<">">>
nmLessEq == <<"<", "=">>
nmPrint == <<"p", "r", "i", "n", "t">>
nmFac == <<"f", "a", "c">>
nmX == <<"x">>
nmY == <<"y">>
nmZ == <<"z">>

----------------------------------------------------------------------------
(* standard_environment (lines 159-167): a dict from name to value.  A     *)
(* dict is a function whose DOMAIN is the set of bound names.              *)

standard_environment ==
    [name \in {nmPlus, nmMinus, nmTimes, nmDivide, nmLess, nmGreater, nmPrint}
        |-> Builtin(name)]

\* environment[name] = value
Bind(env, name, value) ==
    [n \in DOMAIN env \cup {name} |-> IF n = name THEN value ELSE env[n]]

----------------------------------------------------------------------------
(* Number payloads.  `/` is Python's true division, so a payload is kept   *)
(* as a fraction n/d in lowest terms (d >= 1); float rounding is not       *)
(* modelled.                                                               *)

Abs(n) == IF n < 0 THEN -n ELSE n

RECURSIVE GCD(_, _)
GCD(a, b) == IF b = 0 THEN a ELSE GCD(b, a % b)

Fraction(n, d) ==
    LET s == IF d < 0 THEN -1 ELSE 1
        g == GCD(Abs(n), Abs(d))
    IN  <<"Number", (s * n) \div g, (s * d) \div g>>

----------------------------------------------------------------------------
(* The evaluator.  evaluate mutates the environment it is given and may    *)
(* print, so the model threads an effect state st through every call:      *)
(*   st.env    the environment dict (mutated in place by define)           *)
(*   st.out    what has been written to standard output                    *)
(*   st.trace  history of the call: <<"eval", e, env>> when evaluate(e) is *)
(*             entered, <<"ret", e, value, env>> when it returns,          *)
(*             <<"raise", e, err, env>> when it raises, and                *)
(*             <<"call", f, args>> when a native callable is invoked       *)
(* An outcome is a returned value or a raised exception, with the effect   *)
(* state as the call left it.                                              *)

Return(v, st) == [ok |-> TRUE, err |-> "", value |-> v, st |-> st]
Raise(e, st) == [ok |-> FALSE, err |-> e, value |-> None, st |-> st]

Log(st, ev) == [st EXCEPT !.trace = Append(@, ev)]

KeyError == "KeyError"
NotCallable == "is not a function"
TypeError == "TypeError"
AttributeError == "AttributeError"
ZeroDivisionError == "ZeroDivisionError"
NotAParameterList == "Expected list of parameters"
NotAParameterName == "Expected parameter name"
DontKnow == "Don't know how to evaluate"

\* Python's truth value of a value, as `if test_value:` takes it: an empty
\* list, False and None are false; a dataclass instance (Number, Symbol,
\* Function) and a function object are true.
\* Mutant of truthy: the Number zero counted as false, as in C or Python ints
truthy_zero_false(v) ==
    CASE v[1] = "List" -> v[2] # <<>>
      [] v[1] = "Bool" -> v[2]
      [] v[1] = "None" -> FALSE
      [] v[1] = "Number" -> v[2] # 0
      [] OTHER -> TRUE

truthy(v) ==
    CASE v[1] = "List" -> v[2] # <<>>
      [] v[1] = "Bool" -> v[2]
      [] v[1] = "None" -> FALSE
      [] OTHER -> TRUE

\* Python's callable(): true of the lambdas and print, false of a Function
\* instance (the dataclass defines no __call__) and of every other value.
callable(v) == v[1] = "Builtin"

\* function(*arguments) for a native callable of standard_environment
call_builtin(name, arguments, st) ==
    IF name = nmPrint
    THEN Return(None, [st EXCEPT !.out = Append(@, arguments)])
    ELSE IF Len(arguments) # 2 THEN Raise(TypeError, st)
    ELSE LET x == arguments[1]
             y == arguments[2]
         IN  IF ~IsNumber(x) \/ ~IsNumber(y) THEN Raise(AttributeError, st)
             ELSE CASE name = nmPlus ->
                         Return(Fraction(x[2] * y[3] + y[2] * x[3], x[3] * y[3]), st)
                    [] name = nmMinus ->
                         Return(Fraction(x[2] * y[3] - y[2] * x[3], x[3] * y[3]), st)
                    [] name = nmTimes ->
                         Return(Fraction(x[2] * y[2], x[3] * y[3]), st)
                    [] name = nmDivide ->
                         IF y[2] = 0 THEN Raise(ZeroDivisionError, st)
                         ELSE Return(Fraction(x[2] * y[3], x[3] * y[2]), st)
                    [] name = nmLess ->
                         Return(Bool(x[2] * y[3] < y[2] * x[3]), st)
                    [] name = nmGreater ->
                         Return(Bool(x[2] * y[3] > y[2] * x[3]), st)

\* The shapes the match statement tests, in its order
IsDefineForm(e) ==
    /\ IsList(e) /\ Len(e[2]) = 3
    /\ IsSymbol(e[2][1]) /\ e[2][1][2] = kwDefine
    /\ IsSymbol(e[2][2])

IsIfForm(e) ==
    /\ IsList(e) /\ Len(e[2]) = 4
    /\ IsSymbol(e[2][1]) /\ e[2][1][2] = kwIf

IsFnForm(e) ==
    /\ IsList(e) /\ Len(e[2]) = 3
    /\ IsSymbol(e[2][1]) /\ e[2][1][2] = kwFn

RECURSIVE evaluate(_, _), eval_define(_, _), eval_if(_, _), eval_call(_, _),
          eval_arguments(_, _, _)

\* Mutant of eval_define: the value is returned but never stored
eval_define_unbound(e, st) ==
    LET r == evaluate(e[2][3], st)
    IN  IF ~r.ok THEN r ELSE Return(r.value, r.st)

\* Mutant of eval_define: the name is entered into the dict before its
\* value expression is evaluated
eval_define_early(e, st) ==
    LET r == evaluate(e[2][3], [st EXCEPT !.env = Bind(@, e[2][2][2], None)])
    IN  IF ~r.ok THEN r
        ELSE Return(r.value, [r.st EXCEPT !.env = Bind(@, e[2][2][2], r.value)])

\* case [Symbol("define"), Symbol(name), expression]
eval_define(e, st) ==
    LET r == evaluate(e[2][3], st)
    IN  IF ~r.ok THEN r
        ELSE Return(r.value, [r.st EXCEPT !.env = Bind(@, e[2][2][2], r.value)])

\* case [Symbol("if"), test, expression_if_true, expression_if_false]
eval_if(e, st) ==
    LET t == evaluate(e[2][2], st)
    IN  IF ~t.ok THEN t
        ELSE IF truthy(t.value) THEN evaluate(e[2][3], t.st)
        ELSE evaluate(e[2][4], t.st)

\* case [Symbol("fn"), parameters, body]
eval_fn(e, st) ==
    LET parameters == e[2][2]
        body == e[2][3]
    IN  IF ~IsList(parameters) THEN Raise(NotAParameterList, st)
        ELSE IF \E i \in 1..Len(parameters[2]) : ~IsSymbol(parameters[2][i])
             THEN Raise(NotAParameterName, st)
        ELSE Return(Function([i \in 1..Len(parameters[2]) |-> parameters[2][i][2]],
                             body), st)

\* [evaluate(expression, environment) for expression in tail]: left to
\* right, stopping at the first exception; r.value is the list of values
eval_arguments(tail, values, st) ==
    IF tail = <<>> THEN Return(values, st)
    ELSE LET r == evaluate(Head(tail), st)
         IN  IF ~r.ok THEN r
             ELSE eval_arguments(Tail(tail), Append(values, r.value), r.st)

\* case [head, *tail]
eval_call(e, st) ==
    LET f == evaluate(Head(e[2]), st)
    IN  IF ~f.ok THEN f
        ELSE IF callable(f.value)
             THEN LET a == eval_arguments(Tail(e[2]), <<>>, f.st)
                  IN  IF ~a.ok THEN a
                      ELSE call_builtin(f.value[2], a.value,
                                        Log(a.st, <<"call", f.value[2], a.value>>))
        ELSE Raise(NotCallable, f.st)

\* the match statement of evaluate
eval_match(e, st) ==
    IF IsNumber(e) THEN Return(e, st)
    ELSE IF IsSymbol(e)
         THEN IF e[2] \in DOMAIN st.env THEN Return(st.env[e[2]], st)
              ELSE Raise(KeyError, st)
    ELSE IF IsList(e) /\ e[2] = <<>> THEN Return(List(<<>>), st)
    ELSE IF IsDefineForm(e) THEN eval_define(e, st)
    ELSE IF IsIfForm(e) THEN eval_if(e, st)
    ELSE IF IsFnForm(e) THEN eval_fn(e, st)
    ELSE IF IsList(e) THEN eval_call(e, st)
    ELSE Raise(DontKnow, st)

evaluate(e, st) ==
    LET r == eval_match(e, Log(st, <<"eval", e, st.env>>))
    IN  IF r.ok THEN [r EXCEPT !.st = Log(@, <<"ret", e, r.value, r.st.env>>)]
        ELSE [r EXCEPT !.st = Log(@, <<"raise", e, r.err, r.st.env>>)]

\* The effect state a call of evaluate starts from
Effects(env, out) == [env |-> env, out |-> out, trace |-> <<>>]

----------------------------------------------------------------------------
(* The parser pipeline: text -> tokens -> trees -> text -> trees           *)

RECURSIVE SeqsUpTo(_, _)
SeqsUpTo(S, n) ==
    IF n = 0 THEN {<<>>}
    ELSE LET shorter == SeqsUpTo(S, n - 1)
         IN  shorter \cup {Append(s, c) : s \in {t \in shorter : Len(t) = n - 1}, c \in S}

Texts == SeqsUpTo(TextChars, MaxText)

NoProgram == ProgramRaise("")

NoOutcome == Raise("", Effects(standard_environment, <<>>))

EvalIdle ==
    /\ environment = standard_environment
    /\ expression = NoValue
    /\ before = standard_environment
    /\ outcome = NoOutcome
    /\ steps = 0

ParserIdle ==
    /\ text = <<>>
    /\ tokens = <<>>
    /\ parsed = NoProgram
    /\ reparsed = NoProgram
    /\ ppc = "idle"

DriverIdle ==
    /\ mode = "none"
    /\ pc = "start"
    /\ status = "running"
    /\ source = <<>>
    /\ pending = <<>>
    /\ evaluated = <<>>
    /\ stdout = <<>>
    /\ stderr = <<>>
    /\ event = "none"
    /\ reads = 0

InitParse ==
    /\ text \in Texts
    /\ tokens = <<>>
    /\ parsed = NoProgram
    /\ reparsed = NoProgram
    /\ ppc = "text"
    /\ EvalIdle
    /\ DriverIdle

Tokenize ==
    /\ ppc = "text"
    /\ tokens' = tokenize(text)
    /\ ppc' = "tokens"
    /\ UNCHANGED <<text, parsed, reparsed, evalVars, driverVars>>

ParseProgram ==
    /\ ppc = "tokens"
    /\ parsed' = parse_program(tokens)
    /\ ppc' = "parsed"
    /\ UNCHANGED <<text, tokens, reparsed, evalVars, driverVars>>

Reparse ==
    /\ ppc = "parsed"
    /\ parsed.ok
    /\ reparsed' = parse_program(tokenize(RenderProgram(parsed.items)))
    /\ ppc' = "done"
    /\ UNCHANGED <<text, tokens, parsed, evalVars, driverVars>>

NextParse == Tokenize \/ ParseProgram \/ Reparse

SpecParse == InitParse /\ [][NextParse]_vars

----------------------------------------------------------------------------
(* Calls of evaluate, one after the other, on one environment              *)

App(items) == List(items)
Define(name, e) == List(<<Symbol(kwDefine), Symbol(name), e>>)
If(test, a, b) == List(<<Symbol(kwIf), test, a, b>>)
Fn(parameters, body) == List(<<Symbol(kwFn), parameters, body>>)
Sym(name) == Symbol(name)

Atoms == {Number(0), Number(1), Number(5), Sym(nmX), Sym(nmY), List(<<>>)}

OperandPairs ==
    { <<Number(0), Number(1)>>, <<Number(1), Number(0)>>, <<Number(1), Number(1)>>,
      <<Sym(nmX), Number(1)>>, <<Number(5), Sym(nmX)>> }

PlusX1 == App(<<Sym(nmPlus), Sym(nmX), Number(1)>>)
Inc5 == App(<<Fn(List(<<Sym(nmX)>>), PlusX1), Number(5)>>)

FnForms ==
    { Fn(List(<<Sym(nmX)>>), PlusX1),
      Fn(List(<<>>), Number(1)),
      Fn(List(<<>>), Define(nmX, Number(1))),
      Fn(Sym(nmX), Number(1)),
      Fn(List(<<Number(1)>>), Number(1)) }

Simple ==
    Atoms
    \cup { Define(n, a) : n \in {nmX, nmY}, a \in Atoms }
    \cup { App(<<Sym(f), p[1], p[2]>>) :
             f \in {nmPlus, nmMinus, nmTimes, nmDivide, nmLess, nmGreater},
             p \in OperandPairs }
    \cup { App(<<Sym(nmPrint), a>>) : a \in Atoms }
    \cup { App(<<a>>) : a \in Atoms \cup {Sym(nmPrint), Sym(nmPlus)} }
    \cup FnForms

Print1 == App(<<Sym(nmPrint), Number(1)>>)
Print2 == App(<<Sym(nmPrint), Number(2)>>)

Tests ==
    Atoms
    \cup { Sym(nmZ), Sym(nmPlus),
           App(<<Sym(nmLess), Number(0), Number(1)>>),
           App(<<Sym(nmLess), Number(1), Number(0)>>),
           App(<<Sym(nmGreater), Sym(nmX), Number(0)>>),
           App(<<Sym(nmPrint), Number(0)>>),
           Fn(List(<<>>), Number(1)),
           Define(nmX, List(<<>>)),
           Define(nmX, Number(0)) }

Branches ==
    { <<Number(1), Number(2)>>,
      <<Define(nmX, Number(1)), Define(nmY, Number(2))>>,
      <<Print1, Print2>>,
      <<Sym(nmX), Sym(nmZ)>> }

Arguments == { Sym(nmX), Sym(nmZ), Define(nmX, Number(1)), Print1 }

ArgumentPairs ==
    { <<Define(nmX, Number(1)), Sym(nmX)>>,
      <<Sym(nmX), Define(nmX, Number(1))>>,
      <<Define(nmX, Number(1)), Define(nmY, Sym(nmX))>>,
      <<Define(nmX, Number(1)), Define(nmX, Number(5))>>,
      <<Print1, Print2>>,
      <<Print1, Sym(nmZ)>>,
      <<Sym(nmZ), Print1>>,
      <<Number(1), Sym(nmX)>> }

Heads ==
    { Sym(nmPlus), Sym(nmPrint), Sym(nmZ), Sym(nmY), Number(1),
      Fn(List(<<Sym(nmX)>>), PlusX1), Define(nmY, Sym(nmPlus)) }

Compound ==
    { If(t, b[1], b[2]) : t \in Tests, b \in Branches }
    \cup { App(<<h, p[1], p[2]>>) : h \in Heads, p \in ArgumentPairs }
    \cup { App(<<Fn(List(<<Sym(nmX)>>), PlusX1), a>>) : a \in Arguments \cup {Number(5)} }
    \cup { App(<<Fn(List(<<>>), Number(1))>>) }
    \cup { Define(n, e) : n \in {nmX, nmY},
             e \in { PlusX1,
                     Define(nmX, Number(5)),
                     Fn(List(<<Sym(nmX)>>), PlusX1),
                     App(<<Sym(nmPlus), Define(nmX, Number(1)), Sym(nmY)>>),
                     App(<<Sym(nmLess), Sym(nmX), Number(1)>>),
                     App(<<Sym(nmPrint), Sym(nmX)>>),
                     If(Sym(nmX), Define(nmY, Number(1)), Sym(nmZ)) } }

Expressions == Simple \cup Compound

InitEval ==
    /\ ParserIdle
    /\ EvalIdle
    /\ DriverIdle

Evaluate(e) ==
    /\ steps < MaxEvals
    /\ LET r == evaluate(e, Effects(environment, <<>>))
       IN  /\ environment' = r.st.env
           /\ outcome' = r
    /\ expression' = e
    /\ before' = environment
    /\ steps' = steps + 1
    /\ UNCHANGED <<parserVars, driverVars>>

NextEval == \E e \in Expressions : Evaluate(e)

SpecEval == InitEval /\ [][NextEval]_vars

----------------------------------------------------------------------------
(* The drivers: the match on sys.argv (lines 195-204), repl and            *)
(* evaluate_file.  One step of a driver is one statement of its loop: the  *)
(* read and parse of a line or a file, or one iteration of the loop over   *)
(* the parsed expressions.                                                 *)

Call(name, n) == App(<<Sym(name), Number(n)>>)

\* The source's sample program `fac` (lines 31-37)
FacBody ==
    If(App(<<Sym(nmLessEq), Sym(nmX), Number(0)>>),
       Number(1),
       App(<<Sym(nmTimes), Sym(nmX),
             App(<<Sym(nmFac), App(<<Sym(nmMinus), Sym(nmX), Number(1)>>)>>)>>))

FacDefinition == Define(nmFac, Fn(List(<<Sym(nmX)>>), FacBody))

\* The lines a user may type, and the lines a file may hold
Lines ==
    { Render(Define(nmX, Number(42))),
      Render(App(<<Sym(nmPrint), PlusX1>>)),
      Render(FacDefinition),
      Render(Call(nmFac, 0)),
      Render(Call(nmFac, 5)),
      Render(Inc5),
      Render(Sym(nmX)),
      RenderProgram(<<Define(nmY, Number(2)),
                      App(<<Sym(nmPlus), Sym(nmY), Sym(nmZ)>>),
                      Define(nmX, Number(0))>>),
      Render(Define(nmY, Number(1))) \o <<" ", "[">>,
      Render(Define(nmY, Number(1))) \o <<" ", "]">>,
      <<"[", "x", " ", "sup2", "]">> }

RECURSIVE JoinLines(_)
JoinLines(lines) ==
    IF lines = <<>> THEN <<>>
    ELSE Head(lines) \o <<"\n">> \o JoinLines(Tail(lines))

Files == { JoinLines(f) : f \in SeqsUpTo(Lines, MaxLines) }

\* What each driver does with an exception: repl's `except Exception`
\* prints the traceback and goes round the loop again (lines 190-191);
\* evaluate_file has no handler, so the exception ends the process.
\* Mutant of repl_on_exception: the exception is not caught
repl_on_exception_uncaught == [pc |-> "exit", status |-> "crashed"]

repl_on_exception == [pc |-> "prompt", status |-> "running"]

\* Mutant of evaluate_file_on_exception: the failing form is skipped and
\* the loop goes on
evaluate_file_on_exception_skip == [pc |-> "file_eval", status |-> "running"]

evaluate_file_on_exception == [pc |-> "exit", status |-> "crashed"]

\* The state when the match on sys.argv is reached.  The module-level call
\* at line 169 has evaluated [+ [* 3 4] [* 5 6]] in standard_environment,
\* which binds nothing.
Init ==
    /\ ParserIdle
    /\ EvalIdle
    /\ DriverIdle

\* case [progname]: repl(standard_environment)
MainRepl ==
    /\ pc = "start"
    /\ mode' = "repl"
    /\ pc' = "prompt"
    /\ UNCHANGED <<status, source, pending, evaluated, stdout, stderr, event, reads>>
    /\ UNCHANGED <<parserVars, evalVars>>

\* case [progname, filename]: evaluate_file opens and reads the file
MainFile(contents) ==
    /\ pc = "start"
    /\ mode' = "file"
    /\ source' = contents
    /\ pc' = "file_parse"
    /\ UNCHANGED <<status, pending, evaluated, stdout, stderr, event, reads>>
    /\ UNCHANGED <<parserVars, evalVars>>

\* case [progname, *_]: the usage message
MainUsage ==
    /\ pc = "start"
    /\ mode' = "usage"
    /\ stdout' = Append(stdout, "Usage")
    /\ pc' = "exit"
    /\ status' = "returned"
    /\ UNCHANGED <<source, pending, evaluated, stderr, event, reads>>
    /\ UNCHANGED <<parserVars, evalVars>>

\* lines 181-182: input() returns a line, which is tokenized and parsed
ReplInput(line) ==
    /\ mode = "repl" /\ pc = "prompt"
    /\ reads < MaxLines
    /\ reads' = reads + 1
    /\ source' = line
    /\ LET r == parse_program(tokenize(line))
       IN  IF r.ok
           THEN /\ pending' = r.items
                /\ pc' = IF r.items = <<>> THEN "prompt" ELSE "eval"
                /\ event' = "parsed"
                /\ UNCHANGED <<status, stderr>>
           ELSE /\ pending' = <<>>
                /\ pc' = repl_on_exception.pc
                /\ status' = repl_on_exception.status
                /\ stderr' = Append(stderr, r.err)
                /\ event' = "parse-failed"
    /\ UNCHANGED <<mode, evaluated, stdout>>
    /\ UNCHANGED <<parserVars, evalVars>>

\* lines 183-185: one iteration of the loop over the line's expressions
ReplEval ==
    /\ mode = "repl" /\ pc = "eval"
    /\ LET e == Head(pending)
           r == evaluate(e, Effects(environment, stdout))
       IN  /\ expression' = e
           /\ before' = environment
           /\ outcome' = r
           /\ environment' = r.st.env
           /\ evaluated' = Append(evaluated, [e |-> e, ok |-> r.ok])
           /\ IF r.ok
              THEN /\ stdout' = Append(r.st.out, <<r.value>>)
                   /\ pending' = Tail(pending)
                   /\ pc' = IF Tail(pending) = <<>> THEN "prompt" ELSE "eval"
                   /\ event' = "evaluated"
                   /\ UNCHANGED <<status, stderr>>
              ELSE /\ stdout' = r.st.out
                   /\ pending' = <<>>
                   /\ pc' = repl_on_exception.pc
                   /\ status' = repl_on_exception.status
                   /\ stderr' = Append(stderr, r.err)
                   /\ event' = "eval-failed"
    /\ steps' = steps + 1
    /\ UNCHANGED <<mode, source, reads>>
    /\ UNCHANGED parserVars

\* lines 187-188: input() raises EOFError and repl returns
ReplEOF ==
    /\ mode = "repl" /\ pc = "prompt"
    /\ pc' = "exit"
    /\ status' = "returned"
    /\ event' = "eof"
    /\ UNCHANGED <<mode, source, pending, evaluated, stdout, stderr, reads>>
    /\ UNCHANGED <<parserVars, evalVars>>

\* line 174: the whole file is tokenized and parsed
EvaluateFileParse ==
    /\ mode = "file" /\ pc = "file_parse"
    /\ LET r == parse_program(tokenize(source))
       IN  IF r.ok
           THEN /\ pending' = r.items
                /\ pc' = IF r.items = <<>> THEN "exit" ELSE "file_eval"
                /\ status' = IF r.items = <<>> THEN "returned" ELSE status
                /\ event' = "parsed"
                /\ UNCHANGED stderr
           ELSE /\ pending' = <<>>
                /\ pc' = evaluate_file_on_exception.pc
                /\ status' = evaluate_file_on_exception.status
                /\ stderr' = Append(stderr, r.err)
                /\ event' = "parse-failed"
    /\ UNCHANGED <<mode, source, evaluated, stdout, reads>>
    /\ UNCHANGED <<parserVars, evalVars>>

\* lines 175-176: one iteration of the loop over the file's expressions
EvaluateFileEval ==
    /\ mode = "file" /\ pc = "file_eval"
    /\ pending # <<>>
    /\ LET e == Head(pending)
           r == evaluate(e, Effects(environment, stdout))
       IN  /\ expression' = e
           /\ before' = environment
           /\ outcome' = r
           /\ environment' = r.st.env
           /\ stdout' = r.st.out
           /\ evaluated' = Append(evaluated, [e |-> e, ok |-> r.ok])
           /\ pending' = Tail(pending)
           /\ IF r.ok
              THEN /\ pc' = IF Tail(pending) = <<>> THEN "exit" ELSE "file_eval"
                   /\ status' = IF Tail(pending) = <<>> THEN "returned" ELSE status
                   /\ event' = "evaluated"
                   /\ UNCHANGED stderr
              ELSE /\ pc' = evaluate_file_on_exception.pc
                   /\ status' = evaluate_file_on_exception.status
                   /\ stderr' = Append(stderr, r.err)
                   /\ event' = "eval-failed"
    /\ steps' = steps + 1
    /\ UNCHANGED <<mode, source, reads>>
    /\ UNCHANGED parserVars

Next ==
    \/ MainRepl
    \/ \E f \in Files : MainFile(f)
    \/ MainUsage
    \/ \E line \in Lines : ReplInput(line)
    \/ ReplEval
    \/ ReplEOF
    \/ EvaluateFileParse
    \/ EvaluateFileEval

Spec == Init /\ [][Next]_vars

----------------------------------------------------------------------------
(* Reading the history of one call of evaluate                             *)

Called == steps > 0

\* The spans <<first, last>> of the trace's events that belong to the
\* sub-evaluations made directly by the outermost call, in order
RECURSIVE KidSpans(_, _, _, _)
KidSpans(tr, i, depth, start) ==
    IF i > Len(tr) THEN <<>>
    ELSE IF tr[i][1] = "eval"
         THEN KidSpans(tr, i + 1, depth + 1, IF depth = 1 THEN i ELSE start)
    ELSE IF tr[i][1] \in {"ret", "raise"}
         THEN IF depth = 2
              THEN <<(<<start, i>>)>> \o KidSpans(tr, i + 1, 1, 0)
              ELSE KidSpans(tr, i + 1, depth - 1, start)
    ELSE KidSpans(tr, i + 1, depth, start)

\* Each direct sub-evaluation: its expression, the environment it started
\* in, whether it returned, its value (or exception) and the environment
\* it left
Kids(tr) ==
    LET spans == KidSpans(tr, 2, 1, 0)
    IN  [k \in 1..Len(spans) |->
            [e |-> tr[spans[k][1]][2],
             envIn |-> tr[spans[k][1]][3],
             ok |-> tr[spans[k][2]][1] = "ret",
             result |-> tr[spans[k][2]][3],
             envOut |-> tr[spans[k][2]][4],
             last |-> spans[k][2]]]

\* The positions of the native calls made directly by the outermost call
RECURSIVE RootCalls(_, _, _)
RootCalls(tr, i, depth) ==
    IF i > Len(tr) THEN <<>>
    ELSE IF tr[i][1] = "eval" THEN RootCalls(tr, i + 1, depth + 1)
    ELSE IF tr[i][1] \in {"ret", "raise"} THEN RootCalls(tr, i + 1, depth - 1)
    ELSE IF depth = 1 THEN <<i>> \o RootCalls(tr, i + 1, depth)
    ELSE RootCalls(tr, i + 1, depth)

\* The define forms whose evaluation returned during the call
FinishedDefines(tr) ==
    { tr[i][2][2][2][2] : i \in { j \in 1..Len(tr) : tr[j][1] = "ret" /\ IsDefineForm(tr[j][2]) } }

SameBinding(a, b, name) ==
    /\ (name \in DOMAIN a) = (name \in DOMAIN b)
    /\ name \in DOMAIN a => a[name] = b[name]

ChangedNames(a, b) == { n \in DOMAIN a \cup DOMAIN b : ~SameBinding(a, b, n) }

IsEmptyList(v) == v[1] = "List" /\ v[2] = <<>>

IsApplication(e) ==
    IsList(e) /\ e[2] # <<>> /\ ~IsDefineForm(e) /\ ~IsIfForm(e) /\ ~IsFnForm(e)

\* Whether a define form occurs where evaluate would reach it (not inside
\* the body or the parameters of an fn form)
RECURSIVE ContainsDefine(_)
ContainsDefine(e) ==
    /\ IsList(e)
    /\ ~IsFnForm(e)
    /\ \/ IsDefineForm(e)
       \/ \E i \in 1..Len(e[2]) : ContainsDefine(e[2][i])

----------------------------------------------------------------------------
(* C1: a Function applied to as many arguments as it has parameters yields *)
(* the value of its body with the parameters bound to the argument values; *)
(* [[fn [x] [+ x 1]] 5] yields Number(6).                                  *)

RECURSIVE BindAll(_, _, _)
BindAll(env, names, values) ==
    IF names = <<>> THEN env
    ELSE BindAll(Bind(env, Head(names), Head(values)), Tail(names), Tail(values))

\* C1: applying a Function to as many arguments as it has parameters
\* returns the value of its body under the positional bindings
C1_FunctionApplication ==
    (Called /\ IsApplication(expression)) =>
        LET kids == Kids(outcome.st.trace)
            tail == Tail(expression[2])
            f == kids[1].result
            a == eval_arguments(tail, <<>>, Effects(kids[1].envOut, <<>>))
        IN  (/\ kids[1].ok /\ f[1] = "Function" /\ Len(f[2]) = Len(tail) /\ a.ok)
            => LET body == evaluate(f[3], Effects(BindAll(a.st.env, f[2], a.value), <<>>))
               IN  /\ body.ok => (outcome.ok /\ outcome.value = body.value)
                   /\ expression = Inc5 => (outcome.ok /\ outcome.value = Number(6))

----------------------------------------------------------------------------
(* C3 (as stated): [if test then else] evaluates test once and then        *)
(* exactly one branch: else when the test's value is the empty list, then  *)
(* for any other value; [if [] 1 2] yields 2 and [if 0 1 2] yields 1.      *)

IfChooses(falsy(_)) ==
    (Called /\ IsIfForm(expression)) =>
        LET kids == Kids(outcome.st.trace)
            test == expression[2][2]
            then == expression[2][3]
            else == expression[2][4]
        IN  /\ Len(kids) >= 1
            /\ kids[1].e = test
            /\ kids[1].envIn = before
            /\ ~kids[1].ok => Len(kids) = 1
            /\ kids[1].ok =>
                  /\ Len(kids) = 2
                  /\ kids[2].e = IF falsy(kids[1].result) THEN else ELSE then
                  /\ kids[2].envIn = kids[1].envOut
                  /\ outcome.ok = kids[2].ok
                  /\ outcome.ok => outcome.value = kids[2].result
                  /\ environment = kids[2].envOut
            /\ expression = If(List(<<>>), Number(1), Number(2))
                  => (outcome.ok /\ outcome.value = Number(2))
            /\ expression = If(Number(0), Number(1), Number(2))
                  => (outcome.ok /\ outcome.value = Number(1))

\* C3 (as stated): only the empty list sends `if` to its else branch
C3_OnlyEmptyListIsFalse == IfChooses(IsEmptyList)

IsFalsy(v) == IsEmptyList(v) \/ v = Bool(FALSE) \/ v = None

\* C3 (amended): else is chosen when the test's value is the empty list,
\* the False of a comparison or the None of print; then is chosen for every
\* other value (a Number, zero included, a Function, a native callable, True).
C3_IfChoosesByTruthValue == IfChooses(IsFalsy)

C3_Witness ==
    /\ Called /\ IsIfForm(expression) /\ outcome.ok
    /\ LET kids == Kids(outcome.st.trace)
       IN  /\ Len(kids) = 2
           /\ kids[1].result = Bool(FALSE)
           /\ kids[2].e = expression[2][4]

----------------------------------------------------------------------------
(* C4 (as stated): a successful [define name expr] returns the value v of  *)
(* expr and binds name to v in the environment passed in, leaving every    *)
(* other name as expr's evaluation left it; a later evaluation of the      *)
(* symbol returns the bound value; if expr fails, name keeps its previous  *)
(* binding (or stays unbound).                                             *)

DefineBinds(onFailure(_, _)) ==
    /\ (Called /\ IsDefineForm(expression)) =>
          LET kids == Kids(outcome.st.trace)
              name == expression[2][2][2]
          IN  /\ Len(kids) = 1
              /\ kids[1].e = expression[2][3]
              /\ kids[1].envIn = before
              /\ outcome.ok = kids[1].ok
              /\ outcome.ok =>
                    /\ outcome.value = kids[1].result
                    /\ environment = Bind(kids[1].envOut, name, outcome.value)
              /\ ~outcome.ok => onFailure(name, kids[1].envOut)
    /\ (Called /\ IsSymbol(expression)) =>
          /\ environment = before
          /\ outcome.ok = (expression[2] \in DOMAIN before)
          /\ outcome.ok => outcome.value = before[expression[2]]

KeepsPreviousBinding(name, left) == SameBinding(environment, before, name)

\* C4 (as stated): a define returns and binds its value; when its value
\* expression fails, name has the binding it had before the define
C4_DefineKeepsBindingOnFailure == DefineBinds(KeepsPreviousBinding)

KeepsWhatExprLeft(name, left) == environment = left

\* C4 (amended): a define returns and binds its value; if expr fails, the
\* define binds nothing: the environment is as expr's evaluation left it,
\* so name keeps its previous binding unless a define of the same name
\* nested in expr completed before the failure.
C4_DefineBinds == DefineBinds(KeepsWhatExprLeft)

C4_Witness ==
    /\ Called /\ IsDefineForm(expression) /\ ~outcome.ok
    /\ ~SameBinding(environment, before, expression[2][2][2])

----------------------------------------------------------------------------
(* C9: in [head arg1 ... argn], head is evaluated first; a head value that *)
(* is not a callable fails with NotCallable and no argument is evaluated;  *)
(* otherwise the arguments are evaluated once each, left to right, in the  *)
(* same environment, and only then is the callable invoked with the        *)
(* argument values.  A callable is a native procedure or a Function.       *)

ApplicationOrder(isCallable(_)) ==
    (Called /\ IsApplication(expression)) =>
        LET tr == outcome.st.trace
            kids == Kids(tr)
            head == Head(expression[2])
            tail == Tail(expression[2])
            calls == RootCalls(tr, 2, 1)
        IN  /\ Len(kids) >= 1
            /\ kids[1].e = head
            /\ kids[1].envIn = before
            /\ (kids[1].ok /\ ~isCallable(kids[1].result)) =>
                  /\ Len(kids) = 1
                  /\ ~outcome.ok
                  /\ outcome.err = NotCallable
                  /\ calls = <<>>
            /\ (kids[1].ok /\ isCallable(kids[1].result)) =>
                  /\ Len(kids) <= 1 + Len(tail)
                  /\ \A i \in 2..Len(kids) :
                        /\ kids[i].e = tail[i - 1]
                        /\ kids[i].envIn = kids[i - 1].envOut
                        /\ kids[i - 1].ok
                  /\ Len(kids) < 1 + Len(tail) =>
                        /\ ~kids[Len(kids)].ok
                        /\ ~outcome.ok
                        /\ calls = <<>>
                  /\ (Len(kids) = 1 + Len(tail) /\ kids[Len(kids)].ok) =>
                        /\ Len(calls) = 1
                        /\ calls[1] > kids[Len(kids)].last
                        /\ tr[calls[1]][2] = kids[1].result[2]
                        /\ tr[calls[1]][3] = [i \in 1..Len(tail) |-> kids[i + 1].result]

IsCallable(v) == v[1] \in {"Builtin", "Function"}

\* C9: head first; NotCallable without evaluating an argument when the
\* head's value is neither a native procedure nor a Function; otherwise
\* the arguments once each, left to right, and then the call
C9_ApplicationOrder == ApplicationOrder(IsCallable)

\* The same statement with only the native procedures counted as callable
ApplicationOrderNative == ApplicationOrder(callable)

----------------------------------------------------------------------------
(* C10: evaluate changes the environment only through define: whether it   *)
(* returns or raises, the environment differs from the one before only in  *)
(* the names of define forms that finished; no binding is removed; and a   *)
(* Number, a Symbol, the empty list, an fn form, and an if or a call with  *)
(* no define in its sub-expressions leave every binding unchanged.         *)

----------------------------------------------------------------------------
(* C2: after [define fac [fn [x] [if [<= x 0] 1 [* x [fac [- x 1]]]]]],    *)
(* [fac n] evaluated in the same environment returns Number(n!); [fac 5]   *)
(* returns Number(120).                                                    *)

FacFunction == Function(<<nmX>>, FacBody)

RECURSIVE Factorial(_)
Factorial(n) == IF n = 0 THEN 1 ELSE n * Factorial(n - 1)

\* C2: with fac defined as in the source's sample, [fac n] returns n!
C2_Factorial ==
    \A n \in {0, 5} :
        (/\ Called
         /\ expression = Call(nmFac, n)
         /\ nmFac \in DOMAIN before
         /\ before[nmFac] = FacFunction)
        => (outcome.ok /\ outcome.value = Number(Factorial(n)))

----------------------------------------------------------------------------
(* C5: parse_program returns the list of top-level forms if and only if    *)
(* the brackets of the token sequence are balanced; otherwise it raises    *)
(* and returns no list: "expecting ]" when the tokens run out with a [     *)
(* open, "unexpected ]" when a ] occurs with no [ open.                    *)

\* The bracket structure of a token sequence, by counting depth
RECURSIVE Brackets(_, _)
Brackets(toks, depth) ==
    IF toks = <<>> THEN (IF depth = 0 THEN "balanced" ELSE "open")
    ELSE IF Head(toks) = <<LBracket>> THEN Brackets(Tail(toks), depth + 1)
    ELSE IF Head(toks) = <<RBracket>>
         THEN IF depth = 0 THEN "unmatched" ELSE Brackets(Tail(toks), depth - 1)
    ELSE Brackets(Tail(toks), depth)

Parsed == ppc \in {"parsed", "done"}

\* A token str.isdigit() accepts and int() rejects
OddDigits(toks) == \E i \in 1..Len(toks) : isdigit(toks[i]) /\ ~IntParses(toks[i])

ParseIffBalanced(covered(_)) ==
    (Parsed /\ covered(tokens)) =>
        LET b == Brackets(tokens, 0)
        IN  /\ parsed.ok <=> b = "balanced"
            /\ b = "open" => parsed.err = ExpectingClose
            /\ b = "unmatched" => parsed.err = UnexpectedClose
            /\ ~parsed.ok => parsed.items = <<>>

AnyTokens(toks) == TRUE
DecimalTokens(toks) == ~OddDigits(toks)

\* C5: parse_program returns a list exactly for the balanced token
\* sequences, and otherwise raises the bracket error that applies
C5_ParseIffBalanced == ParseIffBalanced(AnyTokens)

\* The same statement for the token sequences whose digits are all decimal
ParseIffBalancedDecimal == ParseIffBalanced(DecimalTokens)

----------------------------------------------------------------------------
(* C8: for every well-bracketed token sequence parse_program yields trees  *)
(* with the nesting and the element order of the input, every all-digit    *)
(* token a Number and every other non-bracket token a Symbol; rendering    *)
(* the trees and tokenizing and parsing the text again yields equal trees. *)

\* A token sequence and a list of trees, each as the sequence of its
\* brackets and atoms
TokenShape(tok) ==
    IF tok = <<LBracket>> \/ tok = <<RBracket>> THEN tok
    ELSE IF \A i \in 1..Len(tok) : tok[i] \in DecimalChars THEN <<"Number">>
    ELSE <<"Symbol", tok>>

RECURSIVE TreeShape(_), TreesShape(_)
TreeShape(v) ==
    IF IsNumber(v) THEN <<(<<"Number">>)>>
    ELSE IF IsSymbol(v) THEN <<(<<"Symbol", v[2]>>)>>
    ELSE <<(<<LBracket>>)>> \o TreesShape(v[2]) \o <<(<<RBracket>>)>>

TreesShape(items) ==
    IF items = <<>> THEN <<>>
    ELSE TreeShape(Head(items)) \o TreesShape(Tail(items))

RoundTrip(covered(_)) ==
    (Parsed /\ covered(tokens) /\ Brackets(tokens, 0) = "balanced") =>
        /\ parsed.ok
        /\ TreesShape(parsed.items) = [i \in 1..Len(tokens) |-> TokenShape(tokens[i])]
        /\ ppc = "done" => (reparsed.ok /\ reparsed.items = parsed.items)

\* C8: a well-bracketed token sequence parses to trees of the same shape,
\* and the rendered trees parse to equal trees
C8_RoundTrip == RoundTrip(AnyTokens)

\* The same statement for the token sequences whose digits are all decimal
RoundTripDecimal == RoundTrip(DecimalTokens)

----------------------------------------------------------------------------
(* C6: in interactive mode a line whose parse or evaluation fails does not *)
(* end the loop: control is back at the prompt with the environment as the *)
(* failing form left it, holding every earlier binding; a line that fails  *)
(* to parse evaluates nothing and leaves the environment unchanged; the    *)
(* loop ends only at end-of-input, and then normally.                      *)

ReplState ==
    mode = "repl" =>
        /\ status # "crashed"
        /\ pc = "exit" => (event = "eof" /\ status = "returned")
        /\ event \in {"parse-failed", "eval-failed"} => (pc = "prompt" /\ status = "running")

ReplStep ==
    mode = "repl" =>
        /\ reads' # reads =>
              /\ environment' = environment
              /\ evaluated' = evaluated
              /\ event' = "parse-failed" => (pending' = <<>> /\ stdout' = stdout)
        /\ steps' # steps =>
              /\ before' = environment
              /\ environment' = outcome'.st.env
              /\ \A n \in DOMAIN environment :
                    /\ n \in DOMAIN environment'
                    /\ \/ environment'[n] = environment[n]
                       \/ n \in FinishedDefines(outcome'.st.trace)
        /\ (reads' = reads /\ steps' = steps) => environment' = environment
        /\ (pc' = "exit" /\ pc # "exit") => (pc = "prompt" /\ event' = "eof")

\* C6: repl never crashes, returns only at end-of-input, and after a
\* failing line is back at the prompt with the environment kept
C6_ReplSurvivesFailures == []ReplState /\ [][ReplStep]_vars

C6_Witness ==
    /\ mode = "repl"
    /\ stderr # <<>>
    /\ event = "evaluated"
    /\ nmX \in DOMAIN environment
    /\ nmY \in DOMAIN environment

----------------------------------------------------------------------------
(* C7: in file mode the whole file is parsed before anything is evaluated, *)
(* so a parse failure means no form is evaluated; otherwise the forms are  *)
(* evaluated one by one in source order in one environment, and the first  *)
(* failure stops the run: the forms before it have had their effects and   *)
(* no form after it is evaluated.                                          *)

\* The effects of evaluating forms one after the other from st
RECURSIVE RunForms(_, _)
RunForms(forms, st) ==
    IF forms = <<>> THEN st
    ELSE RunForms(Tail(forms), evaluate(Head(forms), [st EXCEPT !.trace = <<>>]).st)

\* C7: evaluate_file evaluates nothing unless the whole file parses, then
\* the forms in order on one environment, stopping at the first failure
C7_FileRun ==
    mode = "file" =>
        LET r == parse_program(tokenize(source))
            n == Len(evaluated)
        IN  /\ pc = "file_parse" => (evaluated = <<>> /\ environment = standard_environment)
            /\ (pc # "file_parse" /\ ~r.ok) =>
                  /\ evaluated = <<>>
                  /\ environment = standard_environment
                  /\ stdout = <<>>
                  /\ status = "crashed"
            /\ (pc # "file_parse" /\ r.ok) =>
                  /\ n <= Len(r.items)
                  /\ \A i \in 1..n : evaluated[i].e = r.items[i]
                  /\ \A i \in 1..(n - 1) : evaluated[i].ok
                  /\ pending = SubSeq(r.items, n + 1, Len(r.items))
                  /\ LET run == RunForms(SubSeq(r.items, 1, n),
                                         Effects(standard_environment, <<>>))
                     IN  environment = run.env /\ stdout = run.out
                  /\ (n > 0 /\ ~evaluated[n].ok) => (status = "crashed" /\ pc = "exit")
                  /\ status = "returned" => (n = Len(r.items) /\ (n > 0 => evaluated[n].ok))
                  /\ status = "running" => (pc = "file_eval" /\ pending # <<>>)

C7_Witness ==
    /\ mode = "file"
    /\ status = "crashed"
    /\ event = "eval-failed"
    /\ Len(evaluated) >= 2
    /\ pending # <<>>
    /\ environment # standard_environment

====
